---- MODULE Spec2Model ----
(***************************************************************************)
(* Model of the overtidskassa tax engine (lib/tax-rates.js and             *)
(* lib/trekktabell.js).                                                    *)
(*                                                                         *)
(* JavaScript numbers are modelled as exact rationals.  A Num is an        *)
(* integer count of 1/2,047,500,000 kr (= 1/(9750 * 10000 * 21)), the      *)
(* common denominator of every quantity the engine forms from integer kr   *)
(* salaries and integer hours: /1950 and *1.4 give 1/9750, the rates have  *)
(* at most four decimals when multiplied (0.46 * 0.22), and /10.5 gives    *)
(* 2/21.  TLC's integers are 32 bits wide, so a Num is kept as six limbs   *)
(* in base 10000, least significant first; the lower five limbs are in     *)
(* 0..9999 and the top limb carries the sign.                              *)
(***************************************************************************)
EXTENDS Integers, Sequences, FiniteSets, TLC

VARIABLES
  TAX_RATES,  \* the rate registry of lib/tax-rates.js
  args,       \* the arguments of the call
  op,         \* the function called, "none" before the call
  result,     \* what the call returned or threw
  locals,     \* the local values of calculateOvertimeTakeHome at its return
  first,      \* history: the first call made, and whether calls followed it
  cs          \* content/content.js: the script, its page and the stored settings

vars == <<TAX_RATES, args, op, result, locals, first, cs>>

-----------------------------------------------------------------------------
(* Number arithmetic *)

NumNorm(x) ==
  LET s2 == x[2] + (x[1] \div 10000)
      s3 == x[3] + (s2 \div 10000)
      s4 == x[4] + (s3 \div 10000)
      s5 == x[5] + (s4 \div 10000)
      s6 == x[6] + (s5 \div 10000)
  IN  <<x[1] % 10000, s2 % 10000, s3 % 10000, s4 % 10000, s5 % 10000, s6>>

NumZero == <<0, 0, 0, 0, 0, 0>>

NumAdd(x, y) ==
  NumNorm(<<x[1] + y[1], x[2] + y[2], x[3] + y[3], x[4] + y[4], x[5] + y[5], x[6] + y[6]>>)

NumSub(x, y) ==
  NumNorm(<<x[1] - y[1], x[2] - y[2], x[3] - y[3], x[4] - y[4], x[5] - y[5], x[6] - y[6]>>)

\* x * k for an integer k with |k| <= 200000
NumMul(x, k) ==
  NumNorm(<<x[1] * k, x[2] * k, x[3] * k, x[4] * k, x[5] * k, x[6] * k>>)

\* floor(x / d) for an integer d in 1..200000
NumDiv(x, d) ==
  LET t5 == (x[6] % d) * 10000 + x[5]
      t4 == (t5 % d) * 10000 + x[4]
      t3 == (t4 % d) * 10000 + x[3]
      t2 == (t3 % d) * 10000 + x[2]
      t1 == (t2 % d) * 10000 + x[1]
  IN  <<t1 \div d, t2 \div d, t3 \div d, t4 \div d, t5 \div d, x[6] \div d>>

\* floor(x / 10000)
NumShiftDown(x) == <<x[2], x[3], x[4], x[5], x[6] % 10000, x[6] \div 10000>>

\* x * 10000
NumShiftUp(x) == <<0, x[1], x[2], x[3], x[4], x[5] + 10000 * x[6]>>

NumNeg(x) == NumSub(NumZero, x)

NumLt(x, y) == NumSub(x, y)[6] < 0

NumLe(x, y) == ~NumLt(y, x)

NumGt(x, y) == NumLt(y, x)

NumMin(x, y) == IF NumLt(y, x) THEN y ELSE x

NumMax(x, y) == IF NumLt(x, y) THEN y ELSE x

\* an integer n (|n| < 2^31) as limbs
NumOfInt(n) ==
  <<n % 10000, (n \div 10000) % 10000, (n \div 10000) \div 10000, 0, 0, 0>>

\* the integer a Num of magnitude below 2^31 stands for
IntOfNum(x) ==
  IF x[6] < 0
  THEN LET y == NumNeg(x) IN 0 - (y[1] + 10000 * (y[2] + 10000 * y[3]))
  ELSE x[1] + 10000 * (x[2] + 10000 * x[3])

\* n kr as a Num:  n * 9750 * 10000 * 21
Kr(n) == NumMul(NumShiftUp(NumMul(NumOfInt(n), 9750)), 21)

\* x * p / q for a rate p/q
NumScale(x, p, q) == NumDiv(NumMul(x, p), q)

\* Math.round(x * 100): whole cents, halves rounded up
RoundCents(x) ==
  LET twice == NumAdd(NumMul(x, 200), Kr(1))
  IN  IntOfNum(NumDiv(NumDiv(NumShiftDown(NumDiv(twice, 9750)), 21), 2))

RECURSIVE RatioSearch(_, _, _, _)
\* the largest k in lo..hi-1 with k * den <= num, given lo * den <= num < hi * den
RatioSearch(num, den, lo, hi) ==
  IF hi - lo <= 1 THEN lo
  ELSE LET mid == (lo + hi) \div 2
       IN  IF NumLe(NumMul(den, mid), num)
           THEN RatioSearch(num, den, mid, hi)
           ELSE RatioSearch(num, den, lo, mid)

\* Math.round(x / y * 1000) for y > 0: whole per mille, halves rounded up
RoundPerMille(x, y) ==
  RatioSearch(NumAdd(NumMul(x, 2000), y), NumMul(y, 2), -131072, 131072)

-----------------------------------------------------------------------------
(* lib/tax-rates.js.  Rates are in per mille, thresholds and amounts in    *)
(* whole kr, withholdingMonths (10.5) in halves.                           *)

Rates2026 ==
  [ trinnskatt |->
      << [threshold |-> 226100,  inf |-> FALSE, rate |-> 0],
         [threshold |-> 318300,  inf |-> FALSE, rate |-> 17],
         [threshold |-> 725050,  inf |-> FALSE, rate |-> 40],
         [threshold |-> 980100,  inf |-> FALSE, rate |-> 137],
         [threshold |-> 1467200, inf |-> FALSE, rate |-> 168],
         [threshold |-> 0,       inf |-> TRUE,  rate |-> 178] >>,
    trygdeavgift |-> [rate |-> 76, threshold |-> 69650],
    alminneligInntekt |-> [rate |-> 220],
    minstefradrag |-> [rate |-> 460, min |-> 4000, max |-> 95700],
    personfradrag |-> 114210,
    withholdingMonths |-> 21 ]

TAX_RATES_INITIAL == (2026 :> Rates2026)

\* a getTaxRates that falls back to the 2026 rates for an unknown year
getTaxRates_Fallback(year) ==
  IF year \notin DOMAIN TAX_RATES
  THEN [threw |-> FALSE, rates |-> Rates2026]
  ELSE [threw |-> FALSE, rates |-> TAX_RATES[year]]

\* getTaxRates(year): the rates, or a throw
getTaxRates(year) ==
  IF year \notin DOMAIN TAX_RATES
  THEN [threw |-> TRUE, rates |-> Rates2026]
  ELSE [threw |-> FALSE, rates |-> TAX_RATES[year]]

-----------------------------------------------------------------------------
(* lib/trekktabell.js *)

HOURS_PER_YEAR == 1950

\* OVERTIME_MULTIPLIER = 1.4, in tenths
OVERTIME_MULTIPLIER_TENTHS == 14

NoTable == [type |-> "null", amount |-> 0]

\* a parseTableNumber whose tillegg range starts at 9000
parseTableNumber_TilleggFrom9000(tableNumber) ==
  IF tableNumber >= 8000 /\ tableNumber <= 8400
  THEN [type |-> "fradrag", amount |-> (tableNumber - 8000) * 1000]
  ELSE IF tableNumber >= 9000 /\ tableNumber <= 9400
  THEN [type |-> "tillegg", amount |-> (tableNumber - 9000) * 1000]
  ELSE NoTable

\* a parseTableNumber that takes an unknown code for the plain table 8000
parseTableNumber_DefaultTable(tableNumber) ==
  IF tableNumber >= 8000 /\ tableNumber <= 8400
  THEN [type |-> "fradrag", amount |-> (tableNumber - 8000) * 1000]
  ELSE IF tableNumber >= 9010 /\ tableNumber <= 9400
  THEN [type |-> "tillegg", amount |-> (tableNumber - 9000) * 1000]
  ELSE [type |-> "fradrag", amount |-> 0]

parseTableNumber(tableNumber) ==
  IF tableNumber >= 8000 /\ tableNumber <= 8400
  THEN [type |-> "fradrag", amount |-> (tableNumber - 8000) * 1000]
  ELSE IF tableNumber >= 9010 /\ tableNumber <= 9400
  THEN [type |-> "tillegg", amount |-> (tableNumber - 9000) * 1000]
  ELSE NoTable

\* a MinThreshold that does not cap the income at the bracket's threshold
MinThreshold_Uncapped(annualIncome, bracket) == annualIncome

\* Math.min(annualIncome, bracket.threshold), the threshold possibly Infinity
MinThreshold(annualIncome, bracket) ==
  IF bracket.inf THEN annualIncome ELSE NumMin(annualIncome, Kr(bracket.threshold))

RECURSIVE TrinnskattLoop_KeepsPrevious(_, _, _, _, _)
\* a loop that never advances previousThreshold
TrinnskattLoop_KeepsPrevious(annualIncome, brackets, i, tax, prev) ==
  IF i > Len(brackets) THEN tax
  ELSE IF prev.inf \/ NumLe(annualIncome, prev.val) THEN tax
  ELSE LET bracket == brackets[i]
           taxableInBracket == NumSub(MinThreshold(annualIncome, bracket), prev.val)
       IN  TrinnskattLoop_KeepsPrevious(
             annualIncome, brackets, i + 1,
             NumAdd(tax, NumScale(NumMax(NumZero, taxableInBracket), bracket.rate, 1000)),
             prev)

RECURSIVE TrinnskattLoop(_, _, _, _, _)
\* the for loop of calculateTrinnskatt from bracket i on; prev is
\* previousThreshold (inf: it is Infinity)
TrinnskattLoop(annualIncome, brackets, i, tax, prev) ==
  IF i > Len(brackets) THEN tax
  ELSE IF prev.inf \/ NumLe(annualIncome, prev.val) THEN tax
  ELSE LET bracket == brackets[i]
           taxableInBracket == NumSub(MinThreshold(annualIncome, bracket), prev.val)
       IN  TrinnskattLoop(
             annualIncome, brackets, i + 1,
             NumAdd(tax, NumScale(NumMax(NumZero, taxableInBracket), bracket.rate, 1000)),
             [inf |-> bracket.inf, val |-> Kr(bracket.threshold)])

calculateTrinnskatt(annualIncome, brackets) ==
  TrinnskattLoop(annualIncome, brackets, 1, NumZero, [inf |-> FALSE, val |-> NumZero])


Throw(e) == [threw |-> e, value |-> <<>>]

Return(v) == [threw |-> "none", value |-> v]

\* Math.min(Math.max(annualGross * rate, min), max)
Minstefradrag(annualGross, rates) ==
  NumMin(NumMax(NumScale(annualGross, rates.minstefradrag.rate, 1000),
                Kr(rates.minstefradrag.min)),
         Kr(rates.minstefradrag.max))

\* a TableAdjustment with the signs exchanged
TableAdjustment_Flipped(tableInfo) ==
  IF tableInfo.type = "fradrag" THEN Kr(tableInfo.amount) ELSE NumNeg(Kr(tableInfo.amount))

TableAdjustment(tableInfo) ==
  IF tableInfo.type = "fradrag" THEN NumNeg(Kr(tableInfo.amount)) ELSE Kr(tableInfo.amount)

\* a calculateMonthlyWithholding that charges trygdeavgift at the threshold itself
calculateMonthlyWithholding_ThresholdInclusive(monthlyGross, tableNumber, taxYear) ==
  LET got == getTaxRates(taxYear)
      rates == got.rates
      tableInfo == parseTableNumber(tableNumber)
      annualGross == NumMul(monthlyGross, 12)
      minstefradrag == Minstefradrag(annualGross, rates)
      tableAdjustment == TableAdjustment(tableInfo)
      alminneligInntekt ==
        NumMax(NumZero,
               NumAdd(NumSub(NumSub(annualGross, minstefradrag), Kr(rates.personfradrag)),
                      tableAdjustment))
      trinnskatt == calculateTrinnskatt(annualGross, rates.trinnskatt)
      trygdeavgift ==
        IF NumLe(Kr(rates.trygdeavgift.threshold), annualGross)
        THEN NumScale(annualGross, rates.trygdeavgift.rate, 1000)
        ELSE NumZero
      inntektsskatt == NumScale(alminneligInntekt, rates.alminneligInntekt.rate, 1000)
      annualTax == NumAdd(NumAdd(trinnskatt, trygdeavgift), inntektsskatt)
      monthlyWithholding == NumScale(annualTax, 2, rates.withholdingMonths)
  IN  IF got.threw THEN Throw("year")
      ELSE IF tableInfo = NoTable THEN Throw("table")
      ELSE Return(monthlyWithholding)

\* a calculateMonthlyWithholding that charges trygdeavgift below the threshold
\* instead of above it
calculateMonthlyWithholding_TrygdeavgiftBelow(monthlyGross, tableNumber, taxYear) ==
  LET got == getTaxRates(taxYear)
      rates == got.rates
      tableInfo == parseTableNumber(tableNumber)
      annualGross == NumMul(monthlyGross, 12)
      minstefradrag == Minstefradrag(annualGross, rates)
      tableAdjustment == TableAdjustment(tableInfo)
      alminneligInntekt ==
        NumMax(NumZero,
               NumAdd(NumSub(NumSub(annualGross, minstefradrag), Kr(rates.personfradrag)),
                      tableAdjustment))
      trinnskatt == calculateTrinnskatt(annualGross, rates.trinnskatt)
      trygdeavgift ==
        IF NumLt(annualGross, Kr(rates.trygdeavgift.threshold))
        THEN NumScale(annualGross, rates.trygdeavgift.rate, 1000)
        ELSE NumZero
      inntektsskatt == NumScale(alminneligInntekt, rates.alminneligInntekt.rate, 1000)
      annualTax == NumAdd(NumAdd(trinnskatt, trygdeavgift), inntektsskatt)
      monthlyWithholding == NumScale(annualTax, 2, rates.withholdingMonths)
  IN  IF got.threw THEN Throw("year")
      ELSE IF tableInfo = NoTable THEN Throw("table")
      ELSE Return(monthlyWithholding)

calculateMonthlyWithholding(monthlyGross, tableNumber, taxYear) ==
  LET got == getTaxRates(taxYear)
      rates == got.rates
      tableInfo == parseTableNumber(tableNumber)
      annualGross == NumMul(monthlyGross, 12)
      minstefradrag == Minstefradrag(annualGross, rates)
      tableAdjustment == TableAdjustment(tableInfo)
      alminneligInntekt ==
        NumMax(NumZero,
               NumAdd(NumSub(NumSub(annualGross, minstefradrag), Kr(rates.personfradrag)),
                      tableAdjustment))
      trinnskatt == calculateTrinnskatt(annualGross, rates.trinnskatt)
      trygdeavgift ==
        IF NumGt(annualGross, Kr(rates.trygdeavgift.threshold))
        THEN NumScale(annualGross, rates.trygdeavgift.rate, 1000)
        ELSE NumZero
      inntektsskatt == NumScale(alminneligInntekt, rates.alminneligInntekt.rate, 1000)
      annualTax == NumAdd(NumAdd(trinnskatt, trygdeavgift), inntektsskatt)
      monthlyWithholding == NumScale(annualTax, 2, rates.withholdingMonths)
  IN  IF got.threw THEN Throw("year")
      ELSE IF tableInfo = NoTable THEN Throw("table")
      ELSE Return(monthlyWithholding)

\* a calculateAnnualTax that takes trinnskatt of the general income
calculateAnnualTax_TrinnskattOnGeneralIncome(annualGross, tableNumber, taxYear) ==
  LET got == getTaxRates(taxYear)
      rates == got.rates
      tableInfo == parseTableNumber(tableNumber)
      minstefradrag == Minstefradrag(annualGross, rates)
      tableAdjustment == TableAdjustment(tableInfo)
      alminneligInntekt ==
        NumMax(NumZero,
               NumAdd(NumSub(NumSub(annualGross, minstefradrag), Kr(rates.personfradrag)),
                      tableAdjustment))
      trinnskatt == calculateTrinnskatt(alminneligInntekt, rates.trinnskatt)
      trygdeavgift ==
        IF NumGt(annualGross, Kr(rates.trygdeavgift.threshold))
        THEN NumScale(annualGross, rates.trygdeavgift.rate, 1000)
        ELSE NumZero
      inntektsskatt == NumScale(alminneligInntekt, rates.alminneligInntekt.rate, 1000)
  IN  IF got.threw THEN Throw("year")
      ELSE IF tableInfo = NoTable THEN Throw("table")
      ELSE Return(NumAdd(NumAdd(trinnskatt, trygdeavgift), inntektsskatt))

\* a calculateAnnualTax that leaves trygdeavgift out
calculateAnnualTax_NoTrygdeavgift(annualGross, tableNumber, taxYear) ==
  LET got == getTaxRates(taxYear)
      rates == got.rates
      tableInfo == parseTableNumber(tableNumber)
      minstefradrag == Minstefradrag(annualGross, rates)
      tableAdjustment == TableAdjustment(tableInfo)
      alminneligInntekt ==
        NumMax(NumZero,
               NumAdd(NumSub(NumSub(annualGross, minstefradrag), Kr(rates.personfradrag)),
                      tableAdjustment))
      trinnskatt == calculateTrinnskatt(annualGross, rates.trinnskatt)
      trygdeavgift == NumZero
      inntektsskatt == NumScale(alminneligInntekt, rates.alminneligInntekt.rate, 1000)
  IN  IF got.threw THEN Throw("year")
      ELSE IF tableInfo = NoTable THEN Throw("table")
      ELSE Return(NumAdd(NumAdd(trinnskatt, trygdeavgift), inntektsskatt))

calculateAnnualTax(annualGross, tableNumber, taxYear) ==
  LET got == getTaxRates(taxYear)
      rates == got.rates
      tableInfo == parseTableNumber(tableNumber)
      minstefradrag == Minstefradrag(annualGross, rates)
      tableAdjustment == TableAdjustment(tableInfo)
      alminneligInntekt ==
        NumMax(NumZero,
               NumAdd(NumSub(NumSub(annualGross, minstefradrag), Kr(rates.personfradrag)),
                      tableAdjustment))
      trinnskatt == calculateTrinnskatt(annualGross, rates.trinnskatt)
      trygdeavgift ==
        IF NumGt(annualGross, Kr(rates.trygdeavgift.threshold))
        THEN NumScale(annualGross, rates.trygdeavgift.rate, 1000)
        ELSE NumZero
      inntektsskatt == NumScale(alminneligInntekt, rates.alminneligInntekt.rate, 1000)
  IN  IF got.threw THEN Throw("year")
      ELSE IF tableInfo = NoTable THEN Throw("table")
      ELSE Return(NumAdd(NumAdd(trinnskatt, trygdeavgift), inntektsskatt))

\* x / y as a fraction, y > 0
Ratio(x, y) == [num |-> x, den |-> y]

\* an EffectiveRate that divides whatever grossPay is
EffectiveRate_Unguarded(tax, grossPay) == Ratio(tax, grossPay)

\* an EffectiveRate in per cent instead of a fraction
EffectiveRate_Percent(tax, grossPay) ==
  IF NumGt(grossPay, NumZero) THEN Ratio(NumMul(tax, 100), grossPay) ELSE Ratio(NumZero, Kr(1))

\* grossPay > 0 ? tax / grossPay : 0
EffectiveRate(tax, grossPay) ==
  IF NumGt(grossPay, NumZero) THEN Ratio(tax, grossPay) ELSE Ratio(NumZero, Kr(1))

\* a CombinedMonthly that spreads the overtime pay over the twelve months
CombinedMonthly_SpreadOverYear(normalMonthly, grossPay) ==
  NumAdd(normalMonthly, NumDiv(grossPay, 12))

\* normalMonthly + grossPay
CombinedMonthly(normalMonthly, grossPay) == NumAdd(normalMonthly, grossPay)

\* an OvertimeRate without the overtime premium
OvertimeRate_NoPremium(hourlyRate) == hourlyRate

\* hourlyRate * OVERTIME_MULTIPLIER
OvertimeRate(hourlyRate) == NumScale(hourlyRate, OVERTIME_MULTIPLIER_TENTHS, 10)

\* lines 245-285 of calculateOvertimeTakeHome: the local values before the
\* rounding of the returned object
OvertimeLocals(yearlySalary, overtimeHours, tableNumber, taxYear) ==
  LET hourlyRate == NumDiv(Kr(yearlySalary), HOURS_PER_YEAR)
      overtimeRate == OvertimeRate(hourlyRate)
      grossPay == NumMul(overtimeRate, overtimeHours)
      normalMonthly == NumDiv(Kr(yearlySalary), 12)
      combinedMonthly == CombinedMonthly(normalMonthly, grossPay)
      AtReturn(withholdingNormal, withholdingCombined, annualTaxNormal, annualTaxWithOvertime) ==
        LET withholdingOnOvertime == NumSub(withholdingCombined.value, withholdingNormal.value)
            actualTaxOnOvertime == NumSub(annualTaxWithOvertime.value, annualTaxNormal.value)
            takeHomeActual == NumSub(grossPay, actualTaxOnOvertime)
            takeHomeWithholding == NumSub(grossPay, withholdingOnOvertime)
            effectiveRateActual == EffectiveRate(actualTaxOnOvertime, grossPay)
            effectiveRateWithholding == EffectiveRate(withholdingOnOvertime, grossPay)
        IN  IF withholdingNormal.threw # "none" THEN Throw(withholdingNormal.threw)
            ELSE IF withholdingCombined.threw # "none" THEN Throw(withholdingCombined.threw)
            ELSE IF annualTaxNormal.threw # "none" THEN Throw(annualTaxNormal.threw)
            ELSE IF annualTaxWithOvertime.threw # "none"
            THEN Throw(annualTaxWithOvertime.threw)
            ELSE Return([ hourlyRate |-> hourlyRate,
                          overtimeRate |-> overtimeRate,
                          grossPay |-> grossPay,
                          withholdingOnOvertime |-> withholdingOnOvertime,
                          actualTaxOnOvertime |-> actualTaxOnOvertime,
                          takeHomeActual |-> takeHomeActual,
                          takeHomeWithholding |-> takeHomeWithholding,
                          effectiveRateActual |-> effectiveRateActual,
                          effectiveRateWithholding |-> effectiveRateWithholding ])
  IN  AtReturn(calculateMonthlyWithholding(normalMonthly, tableNumber, taxYear),
               calculateMonthlyWithholding(combinedMonthly, tableNumber, taxYear),
               calculateAnnualTax(Kr(yearlySalary), tableNumber, taxYear),
               calculateAnnualTax(NumAdd(Kr(yearlySalary), grossPay), tableNumber, taxYear))

\* a returned object whose take-home fields are differences of rounded fields
RoundedResult_RoundedOperands(l) ==
  [ grossPay |-> RoundCents(l.grossPay),
    hourlyRate |-> RoundCents(l.hourlyRate),
    overtimeRate |-> RoundCents(l.overtimeRate),
    actualTax |-> RoundCents(l.actualTaxOnOvertime),
    takeHome |-> RoundCents(l.grossPay) - RoundCents(l.actualTaxOnOvertime),
    effectiveRate |-> RoundPerMille(l.effectiveRateActual.num, l.effectiveRateActual.den),
    withholding |-> RoundCents(l.withholdingOnOvertime),
    takeHomeWithholding |-> RoundCents(l.grossPay) - RoundCents(l.withholdingOnOvertime),
    effectiveRateWithholding |->
      RoundPerMille(l.effectiveRateWithholding.num, l.effectiveRateWithholding.den) ]

\* lines 287-305: the returned object; currency in whole cents
\* (Math.round(x * 100) / 100), rates in whole per mille
RoundedResult(l) ==
  [ grossPay |-> RoundCents(l.grossPay),
    hourlyRate |-> RoundCents(l.hourlyRate),
    overtimeRate |-> RoundCents(l.overtimeRate),
    actualTax |-> RoundCents(l.actualTaxOnOvertime),
    takeHome |-> RoundCents(l.takeHomeActual),
    effectiveRate |-> RoundPerMille(l.effectiveRateActual.num, l.effectiveRateActual.den),
    withholding |-> RoundCents(l.withholdingOnOvertime),
    takeHomeWithholding |-> RoundCents(l.takeHomeWithholding),
    effectiveRateWithholding |->
      RoundPerMille(l.effectiveRateWithholding.num, l.effectiveRateWithholding.den) ]

\* the returned object of the locals l, or the throw
Rounded(l) == IF l.threw # "none" THEN l ELSE Return(RoundedResult(l.value))

calculateOvertimeTakeHome(yearlySalary, overtimeHours, tableNumber, taxYear) ==
  Rounded(OvertimeLocals(yearlySalary, overtimeHours, tableNumber, taxYear))

\* the error list of validateParameters, in the order of its checks;
\* highHours is what the check of hours above 200 adds.  taxYear is tested
\* for truthiness before the registry is read, so a year 0 is not looked up.
ValidationErrors(yearlySalary, overtimeHours, tableNumber, taxYear, highHours) ==
  (IF yearlySalary \notin Int
   THEN <<"Yearly salary must be provided as a number">>
   ELSE IF yearlySalary < 100000 \/ yearlySalary > 5000000
   THEN <<"Yearly salary must be between 100,000 and 5,000,000 NOK">>
   ELSE <<>>)
  \o (IF overtimeHours < 0
      THEN <<"Overtime hours must be zero or a positive number">>
      ELSE <<>>)
  \o highHours
  \o (IF parseTableNumber(tableNumber) = NoTable
      THEN <<"Invalid table number. Must be 8000-8400 or 9010-9400">>
      ELSE <<>>)
  \o (IF taxYear # 0 /\ taxYear \notin DOMAIN TAX_RATES
      THEN <<"Tax rates for year " \o ToString(taxYear) \o " are not available">>
      ELSE <<>>)

\* a validateParameters without the check of hours above 200
validateParameters_HighHoursAccepted(yearlySalary, overtimeHours, tableNumber, taxYear) ==
  LET errors == ValidationErrors(yearlySalary, overtimeHours, tableNumber, taxYear, <<>>)
  IN  [valid |-> Len(errors) = 0, errors |-> errors]

validateParameters(yearlySalary, overtimeHours, tableNumber, taxYear) ==
  LET errors ==
        ValidationErrors(yearlySalary, overtimeHours, tableNumber, taxYear,
                         IF overtimeHours > 200
                         THEN <<"Overtime hours seems unusually high (>200 hours)">>
                         ELSE <<>>)
  IN  [valid |-> Len(errors) = 0, errors |-> errors]

-----------------------------------------------------------------------------
(* content/content.js.  The content script's variables, the page it reads  *)
(* and writes, the stored settings and the runs of main are the fields of  *)
(* one record; each function is an operator from the record before to the  *)
(* record after.  A result of calculateOvertimeTakeHome stands as the      *)
(* settings and hours it was calculated from.                              *)

MAX_ATTEMPTS == 20

NoSettings == [configured |-> FALSE, yearlySalary |-> 0, tableNumber |-> 0,
               taxYear |-> 0, useWithholding |-> FALSE]

Settings(salary, table, year, withholding) ==
  [configured |-> TRUE, yearlySalary |-> salary, tableNumber |-> table,
   taxYear |-> year, useWithholding |-> withholding]

\* hours as parseFloat gives them: whole part and decimals without
\* trailing zeros; null for no number
NullHours == [null |-> TRUE, whole |-> 0, decimals |-> <<>>]

Digits == {"0", "1", "2", "3", "4", "5", "6", "7", "8", "9"}

DigitValue(ch) ==
  CASE ch = "0" -> 0 [] ch = "1" -> 1 [] ch = "2" -> 2 [] ch = "3" -> 3 [] ch = "4" -> 4
    [] ch = "5" -> 5 [] ch = "6" -> 6 [] ch = "7" -> 7 [] ch = "8" -> 8 [] ch = "9" -> 9

RECURSIVE Trim(_)
\* String.prototype.trim on a sequence of characters
Trim(text) ==
  IF text = <<>> THEN text
  ELSE IF Head(text) = " " THEN Trim(Tail(text))
  ELSE IF text[Len(text)] = " " THEN Trim(SubSeq(text, 1, Len(text) - 1))
  ELSE text

RECURSIVE LeadingRun(_, _)
\* the longest prefix of text made of characters of the set
LeadingRun(text, chars) ==
  IF text = <<>> \/ Head(text) \notin chars THEN <<>>
  ELSE <<Head(text)>> \o LeadingRun(Tail(text), chars)

RECURSIVE ReplaceFirstComma(_)
\* String.prototype.replace(',', '.'): the first comma only
ReplaceFirstComma(text) ==
  IF text = <<>> THEN text
  ELSE IF Head(text) = "," THEN <<".">> \o Tail(text)
  ELSE <<Head(text)>> \o ReplaceFirstComma(Tail(text))

RECURSIVE WholeValue(_, _)
WholeValue(digits, acc) ==
  IF digits = <<>> THEN acc ELSE WholeValue(Tail(digits), 10 * acc + DigitValue(Head(digits)))

RECURSIVE StripZeros(_)
StripZeros(digits) ==
  IF digits = <<>> THEN digits
  ELSE IF digits[Len(digits)] = "0" THEN StripZeros(SubSeq(digits, 1, Len(digits) - 1))
  ELSE digits

\* parseFloat of a string of digits, periods and commas: the longest prefix
\* digits [. digits], NaN (here null) when it has no digit
ParseFloat(text) ==
  LET whole == LeadingRun(text, Digits)
      rest == SubSeq(text, Len(whole) + 1, Len(text))
      decimals == IF rest # <<>> /\ Head(rest) = "." THEN LeadingRun(Tail(rest), Digits)
                  ELSE <<>>
  IN  IF whole = <<>> /\ decimals = <<>> THEN NullHours
      ELSE [null |-> FALSE, whole |-> WholeValue(whole, 0), decimals |-> StripZeros(decimals)]

\* the text of the injected pay element: " (", the amount, " kr)"
PayText == <<" ", "(", "#", " ", "k", "r", ")">>

\* hoursSpan.textContent: the page's text and the text of the injected child
RECURSIVE Repeated(_, _)
Repeated(text, n) == IF n = 0 THEN <<>> ELSE text \o Repeated(text, n - 1)

TextContent(c) == c.hoursText \o Repeated(PayText, c.payElement.count)

parseOvertimeHours(c) ==
  LET text == Trim(TextContent(c))
      match == LeadingRun(text, Digits \cup {".", ","})
  IN  IF match = <<>> THEN NullHours ELSE ParseFloat(ReplaceFirstComma(match))

ZeroHours == [null |-> FALSE, whole |-> 0, decimals |-> <<>>]

NoPay == [count |-> 0, settings |-> NoSettings, hours |-> NullHours,
          useWithholding |-> FALSE, listener |-> FALSE]

NoResult == [some |-> FALSE, settings |-> NoSettings, hours |-> NullHours]

NoObserver == [connected |-> FALSE, settings |-> NoSettings]

NoPopup == [created |-> FALSE, visible |-> FALSE, result |-> NoResult,
            useWithholding |-> FALSE, inline |-> FALSE]

\* history: the call of updateOvertimeDisplay made in the step, if any;
\* byTimer when a timeout made it, many when the timeout's burst had more
\* than one change
NoUpdate == [ran |-> FALSE, hours |-> NullHours, same |-> FALSE, recalculated |-> FALSE,
             byTimer |-> FALSE, many |-> FALSE]

\* a run of main at its await of the stored settings; overtaken is history:
\* main was called again while the run waited for the row
NewRun == [pc |-> "load", settings |-> NoSettings, outcome |-> "none",
           attempts |-> 0, elapsed |-> 0, polling |-> FALSE, observing |-> FALSE,
           overtaken |-> FALSE]

\* the body had nodes added or removed: every connected page observer runs
\* its callback (BodyMutated); the span changed under a connected hours
\* observer (spanMutated)
Begin(c) == [c EXCEPT !.lastUpdate = NoUpdate, !.spanMutated = FALSE, !.bodyMutated = FALSE]

\* a popup that shows the breakdown of the listener's mode
createHoverPopup(c, calculation, useWithholding) ==
  [c EXCEPT !.popup = [created |-> TRUE, visible |-> FALSE, result |-> calculation,
                        useWithholding |-> useWithholding,
                        inline |-> c.payElement.useWithholding],
            !.bodyMutated = c.bodyMutated \/ ~c.popup.created]

showHoverPopup(c, calculation, useWithholding) ==
  LET d == createHoverPopup(c, calculation, useWithholding)
  IN  [d EXCEPT !.popup.visible = TRUE]

hideHoverPopup(c) ==
  IF c.popup.created THEN [c EXCEPT !.popup.visible = FALSE] ELSE c

\* the listeners are added when the element is created, and keep the
\* useWithholding of that call
injectOvertimePay(c, calculation, useWithholding) ==
  [c EXCEPT !.lastCalculationResult = calculation,
            !.payElement =
               [count |-> IF c.payElement.count = 0 THEN 1 ELSE c.payElement.count,
                settings |-> calculation.settings, hours |-> calculation.hours,
                useWithholding |-> useWithholding,
                listener |-> IF c.payElement.count = 0 THEN useWithholding
                             ELSE c.payElement.listener],
            !.spanMutated = c.currentObserver.connected,
            !.bodyMutated = TRUE]

removeOvertimePay(c) ==
  IF c.payElement.count > 0
  THEN [c EXCEPT !.payElement = IF c.payElement.count = 1 THEN NoPay
                                ELSE [c.payElement EXCEPT !.count = @ - 1],
                 !.spanMutated = c.currentObserver.connected,
                 !.bodyMutated = TRUE]
  ELSE c

\* calculateOvertimeTakeHome throws for these settings
CalculationThrows(settings) ==
  getTaxRates(settings.taxYear).threw \/ parseTableNumber(settings.tableNumber) = NoTable

updateOvertimeDisplay(c, settings) ==
  LET overtimeHours == parseOvertimeHours(c)
      seen == [ran |-> TRUE, hours |-> overtimeHours,
               same |-> overtimeHours = c.lastKnownHours, recalculated |-> FALSE,
               byTimer |-> FALSE, many |-> FALSE]
      d == [c EXCEPT !.lastKnownHours = overtimeHours, !.lastUpdate = seen]
  IN  IF overtimeHours = c.lastKnownHours THEN [c EXCEPT !.lastUpdate = seen]
      ELSE IF overtimeHours = NullHours \/ overtimeHours = ZeroHours
      THEN removeOvertimePay(d)
      ELSE IF CalculationThrows(settings) THEN d
      ELSE injectOvertimePay([d EXCEPT !.lastUpdate.recalculated = TRUE],
                             [some |-> TRUE, settings |-> settings, hours |-> overtimeHours],
                             settings.useWithholding)

\* the old observer is disconnected, and with it the records it had not
\* been given; the debounce timer is left as it is
observeHoursSpan(c, settings) ==
  [c EXCEPT !.currentObserver = [connected |-> TRUE, settings |-> settings],
            !.spanMutated = FALSE]

\* a sequence without its k-th element
Without(seq, k) == SubSeq(seq, 1, k - 1) \o SubSeq(seq, k + 1, Len(seq))

\* clearTimeout(debounceTimer): debounceTimer is the place among the pending
\* timeouts of the one the variable holds, 0 when it holds none that is
\* pending
ClearDebounceTimer(c) ==
  IF c.debounceTimer = 0 THEN c
  ELSE [c EXCEPT !.timers = Without(c.timers, c.debounceTimer), !.debounceTimer = 0]

\* a callback of the hours observer that leaves the earlier timeout pending
HoursObserverCallback_NoClear(c) ==
  IF c.spanMutated /\ c.currentObserver.connected
  THEN [c EXCEPT !.timers = Append(c.timers, c.currentObserver.settings),
                 !.debounceTimer = Len(c.timers) + 1,
                 !.burstOpen = TRUE, !.burstMany = c.burstOpen, !.timerCalls = 0,
                 !.spanMutated = FALSE]
  ELSE [c EXCEPT !.spanMutated = FALSE]

\* the callback of the hours observer: the pending timeout is cleared and a
\* new one is set, which will call updateOvertimeDisplay with the settings
\* of this observer.  History: a burst is open from a change the observer
\* saw to the call of the timeout, burstMany when it saw more than one.
HoursObserverCallback(c) ==
  IF c.spanMutated /\ c.currentObserver.connected
  THEN LET d == ClearDebounceTimer(c)
       IN  [d EXCEPT !.timers = Append(d.timers, c.currentObserver.settings),
                     !.debounceTimer = Len(d.timers) + 1,
                     !.burstOpen = TRUE, !.burstMany = c.burstOpen, !.timerCalls = 0,
                     !.spanMutated = FALSE]
  ELSE [c EXCEPT !.spanMutated = FALSE]

\* pageObserver.disconnect(); pageObserver = null, on the observer the
\* variable holds, whichever call of waitForOvertimeRow created it
DisconnectPageObserver(c) ==
  [c EXCEPT !.runs = [i \in DOMAIN c.runs |->
                        IF i = c.pageObserver THEN [c.runs[i] EXCEPT !.observing = FALSE]
                        ELSE c.runs[i]],
            !.pageObserver = 0]

\* cleanup(): the debounce timer, the hours observer and the page observer
\* the variable holds; an interval of waitForOvertimeRow is not cleared
cleanup(c) ==
  DisconnectPageObserver([ClearDebounceTimer(c) EXCEPT !.currentObserver = NoObserver])

\* whether the promise of run i is still pending
Pending(c, i) == c.runs[i].pc = "wait" /\ c.runs[i].outcome = "none"

\* the attempts of run i after one more checkForRow; the count is kept
\* only while the promise is pending, as nothing reads it afterwards but
\* a comparison that then gives the same answer
AttemptsAfter(c, i) ==
  IF Pending(c, i) THEN c.runs[i].attempts + 1 ELSE c.runs[i].attempts

\* what checkForRow of run i returns
CheckReturns(c, i) == c.row \/ AttemptsAfter(c, i) >= MAX_ATTEMPTS

\* checkForRow of run i, counting every call whoever made it; a run whose
\* promise it resolves with the row is left at "resume", where main goes
\* on after its await
checkForRow(c, i) ==
  LET settle == Pending(c, i) /\ CheckReturns(c, i)
      d == [c EXCEPT !.runs[i].attempts = AttemptsAfter(c, i),
                     !.runs[i].outcome = IF settle THEN (IF c.row THEN "row" ELSE "null") ELSE @,
                     !.runs[i].pc = IF settle THEN (IF c.row THEN "resume" ELSE "done") ELSE @]
  IN  IF CheckReturns(c, i) THEN DisconnectPageObserver(d) ELSE d

RECURSIVE NotifyPageObservers(_, _)
\* the callbacks of the connected page observers, in the order the
\* observers were created; an observer disconnected by an earlier callback
\* loses its records and is not called
NotifyPageObservers(c, i) ==
  IF i > Len(c.runs) THEN c
  ELSE IF c.runs[i].observing THEN NotifyPageObservers(checkForRow(c, i), i + 1)
  ELSE NotifyPageObservers(c, i + 1)

\* main of run i after await waitForOvertimeRow() gave the row
ResumeMain(c, i) ==
  LET settings == c.runs[i].settings
      d == observeHoursSpan(updateOvertimeDisplay(c, settings), settings)
  IN  [d EXCEPT !.runs[i].pc = "done"]

Resumable(c) == {i \in DOMAIN c.runs : c.runs[i].pc = "resume"}

Least(S) == CHOOSE i \in S : \A j \in S : i <= j

RECURSIVE Settle(_)
\* the microtasks that follow a task: the page observers' callbacks for
\* nodes added or removed, the runs of main whose promise was resolved, in
\* the order of resolution, and the hours observer's callback
Settle(c) ==
  IF c.bodyMutated THEN Settle(NotifyPageObservers([c EXCEPT !.bodyMutated = FALSE], 1))
  ELSE IF Resumable(c) # {} THEN Settle(ResumeMain(c, Least(Resumable(c))))
  ELSE HoursObserverCallback(c)

\* the executor of the promise of waitForOvertimeRow in run i
waitForOvertimeRow(c, i) ==
  IF c.row
  THEN [c EXCEPT !.runs[i].outcome = "row", !.runs[i].pc = "resume"]
  ELSE [c EXCEPT !.runs[i].pc = "wait", !.runs[i].observing = TRUE,
                 !.runs[i].polling = TRUE, !.pageObserver = i]

\* main from its start to the await of the stored settings
main(c) ==
  LET d == cleanup(c)
  IN  [d EXCEPT !.lastKnownHours = NullHours, !.runs = Append(d.runs, NewRun)]

\* main of run i from the stored settings to its await of the row
mainWithSettings(c, i) ==
  IF ~c.store.configured \/ c.store.yearlySalary = 0 \/ c.store.tableNumber = 0
  THEN [c EXCEPT !.runs[i].pc = "done", !.runs[i].outcome = "unconfigured"]
  ELSE waitForOvertimeRow(
         [c EXCEPT !.runs[i].settings =
            Settings(c.store.yearlySalary, c.store.tableNumber,
                     IF c.store.taxYear = 0 THEN 2026 ELSE c.store.taxYear,
                     c.store.useWithholding)], i)

\* the content script after init() on a page: main has run to its first await
ContentScriptLoaded(store, row, text) ==
  [store |-> store, runs |-> <<NewRun>>, row |-> row, hoursText |-> text,
   payElement |-> NoPay, lastKnownHours |-> NullHours,
   lastCalculationResult |-> NoResult, currentObserver |-> NoObserver,
   pageObserver |-> 0, timers |-> <<>>, debounceTimer |-> 0, popup |-> NoPopup,
   lastUpdate |-> NoUpdate, burstOpen |-> FALSE, burstMany |-> FALSE, timerCalls |-> 0,
   spanMutated |-> FALSE, bodyMutated |-> FALSE]

-----------------------------------------------------------------------------
(* The calls.  A behaviour draws the arguments of one call and makes it.   *)

MaxHours == 10

SalaryStep == 150000

SalarySteps == 6

MinTableCode == 7990

MaxTableCode == 9410

Hours == {0, 1, MaxHours}

\* the thresholds of the 2026 rates, the salaries the tests name, and a grid
Salaries ==
  {-50000, 0, 60000, 69650, 100000, 226100, 318300, 450000, 609910, 725050, 750000,
   900000, 980100, 1467200, 1500000, 5000000}
  \cup {k * SalaryStep : k \in 1..SalarySteps}

TableSample == {0, 7150, 7999, 8000, 8050, 8115, 8400, 8401, 9000, 9009, 9010, 9050, 9400, 9401}

Years == {2025, 2026}

\* the inputs of the validation tests and the neighbours of each limit
ValidationScenarios ==
  [yearlySalary : {-100, 99999, 100000, 600000, 5000000, 5000001},
   overtimeHours : {-1, 0, 10, 200, 201},
   tableNumber : {7150, 8115, 9009, 9010},
   taxYear : {0, 2026, 2099}]

\* a salary far above the last finite bracket threshold
TopBracketScenarios ==
  [yearlySalary : {100000000}, overtimeHours : {1, 10},
   tableNumber : {8000, 8115, 9400}, taxYear : {2026}]

\* every combination over the sample, every table code of the band around
\* the two ranges for the scenario of the table-effect test, the
\* validation inputs and the top-bracket salary
Scenarios ==
  [yearlySalary : Salaries, overtimeHours : Hours, tableNumber : TableSample, taxYear : Years]
  \cup [yearlySalary : {750000}, overtimeHours : {10},
        tableNumber : MinTableCode..MaxTableCode, taxYear : {2026}]
  \cup ValidationScenarios
  \cup TopBracketScenarios

\* overtimeHours * (yearlySalary / 1950 * 1.4)
GrossPay(a) ==
  NumMul(NumScale(NumDiv(Kr(a.yearlySalary), HOURS_PER_YEAR), OVERTIME_MULTIPLIER_TENTHS, 10),
         a.overtimeHours)

\* the annual income the scenario stands for in a direct call
AnnualIncome(a) == NumAdd(Kr(a.yearlySalary), GrossPay(a))

\* the monthly income the scenario stands for in a direct call
MonthlyIncome(a) == NumAdd(NumDiv(Kr(a.yearlySalary), 12), GrossPay(a))

NoLocals == <<>>

NoCall == [op |-> "none", args |-> <<>>, result |-> <<>>, later |-> FALSE]

\* the history of the step: the call is kept if it is the first one
Recorded ==
  first' = IF first.op = "none"
           THEN [op |-> op', args |-> args, result |-> result', later |-> FALSE]
           ELSE [first EXCEPT !.later = TRUE]

Init ==
  /\ TAX_RATES = TAX_RATES_INITIAL
  /\ args \in Scenarios
  /\ op = "none"
  /\ result = Return(<<>>)
  /\ locals = NoLocals
  /\ first = NoCall
  /\ cs = ContentScriptLoaded(NoSettings, FALSE, <<>>)

CallParseTableNumber ==
  /\ op = "none"
  /\ op' = "parseTableNumber"
  /\ result' = Return(parseTableNumber(args.tableNumber))
  /\ UNCHANGED <<TAX_RATES, args, locals, cs>>
  /\ Recorded

\* a getTaxRates that registers the rates of 2026 under a year it does not
\* know, after throwing for it
CallGetTaxRates_RegistersYear ==
  /\ op = "none"
  /\ op' = "getTaxRates"
  /\ result' = (LET got == getTaxRates(args.taxYear)
                IN  IF got.threw THEN Throw("year") ELSE Return(got.rates))
  /\ TAX_RATES' = IF args.taxYear \in DOMAIN TAX_RATES
                  THEN TAX_RATES
                  ELSE TAX_RATES @@ (args.taxYear :> Rates2026)
  /\ UNCHANGED <<args, locals, cs>>
  /\ Recorded

CallGetTaxRates ==
  /\ op = "none"
  /\ op' = "getTaxRates"
  /\ result' = (LET got == getTaxRates(args.taxYear)
                IN  IF got.threw THEN Throw("year") ELSE Return(got.rates))
  /\ UNCHANGED <<TAX_RATES, args, locals, cs>>
  /\ Recorded

CallCalculateTrinnskatt ==
  /\ op = "none"
  /\ op' = "calculateTrinnskatt"
  /\ result' = Return(calculateTrinnskatt(AnnualIncome(args), TAX_RATES[2026].trinnskatt))
  /\ UNCHANGED <<TAX_RATES, args, locals, cs>>
  /\ Recorded

CallCalculateAnnualTax ==
  /\ op = "none"
  /\ op' = "calculateAnnualTax"
  /\ result' = calculateAnnualTax(AnnualIncome(args), args.tableNumber, args.taxYear)
  /\ UNCHANGED <<TAX_RATES, args, locals, cs>>
  /\ Recorded

CallCalculateMonthlyWithholding ==
  /\ op = "none"
  /\ op' = "calculateMonthlyWithholding"
  /\ result' = calculateMonthlyWithholding(MonthlyIncome(args), args.tableNumber, args.taxYear)
  /\ UNCHANGED <<TAX_RATES, args, locals, cs>>
  /\ Recorded

CallCalculateOvertimeTakeHome ==
  /\ op = "none"
  /\ op' = "calculateOvertimeTakeHome"
  /\ \E l \in {OvertimeLocals(args.yearlySalary, args.overtimeHours,
                               args.tableNumber, args.taxYear)} :
       /\ locals' = l.value
       /\ result' = Rounded(l)
  /\ UNCHANGED <<TAX_RATES, args, cs>>
  /\ Recorded

CallValidateParameters ==
  /\ op = "none"
  /\ op' = "validateParameters"
  /\ result' = Return(validateParameters(args.yearlySalary, args.overtimeHours,
                                          args.tableNumber, args.taxYear))
  /\ UNCHANGED <<TAX_RATES, args, locals, cs>>
  /\ Recorded

Next ==
  \/ CallParseTableNumber
  \/ CallGetTaxRates
  \/ CallCalculateTrinnskatt
  \/ CallCalculateAnnualTax
  \/ CallCalculateMonthlyWithholding
  \/ CallCalculateOvertimeTakeHome
  \/ CallValidateParameters

Spec == Init /\ [][Next]_vars

\* Calls one after another on the one loaded module: the functions are
\* synchronous, so calls from several callers interleave as whole calls.
\* The scenarios are one that succeeds and ones that fail on the table
\* code, on the year, and on both.
SeqScenarios ==
  [yearlySalary : {600000}, overtimeHours : {10},
   tableNumber : {7150, 8115}, taxYear : {2025, 2026}]

InitSeq ==
  /\ TAX_RATES = TAX_RATES_INITIAL
  /\ args \in SeqScenarios
  /\ op = "none"
  /\ result = Return(<<>>)
  /\ locals = NoLocals
  /\ first = NoCall
  /\ cs = ContentScriptLoaded(NoSettings, FALSE, <<>>)

\* the call has returned or thrown; the arguments of the next one are drawn
CallAgain ==
  /\ op # "none"
  /\ op' = "none"
  /\ args' \in SeqScenarios
  /\ result' = Return(<<>>)
  /\ locals' = NoLocals
  /\ UNCHANGED <<TAX_RATES, first, cs>>

NextSeq ==
  \/ CallParseTableNumber
  \/ CallGetTaxRates
  \/ CallCalculateTrinnskatt
  \/ CallCalculateAnnualTax
  \/ CallCalculateMonthlyWithholding
  \/ CallCalculateOvertimeTakeHome
  \/ CallValidateParameters
  \/ CallAgain

SpecSeq == InitSeq /\ [][NextSeq]_vars

-----------------------------------------------------------------------------
(* The content script on a page.  A step is one task of the event loop     *)
(* with the microtasks that follow it.  Times are not kept: a timer that   *)
(* is pending may fire at any later step, and what comes before it came    *)
(* within its delay.                                                       *)

MaxSettingsChanges == 1

SettingsA == Settings(600000, 8115, 2026, FALSE)
SettingsB == Settings(600000, 8115, 2026, TRUE)
SettingsC == Settings(900000, 8115, 2026, FALSE)

SavedSettings == {SettingsA, SettingsB, SettingsC}

\* the texts the page writes into the hours span: none, zero hours, hours
PageTexts ==
  {<<>>, <<"0", ",", "0", " ", "t">>, <<"7", ",", "5", " ", "t">>, <<"1", "0", " ", "t">>}

EngineIdle ==
  /\ TAX_RATES = TAX_RATES_INITIAL
  /\ args = <<>>
  /\ op = "none"
  /\ result = Return(<<>>)
  /\ locals = NoLocals
  /\ first = NoCall

\* the popup saves settings: storage.onChanged calls main
SettingsChanged(s) ==
  /\ Len(cs.runs) <= MaxSettingsChanges
  /\ s # cs.store
  /\ cs' = Settle(main([Begin(cs) EXCEPT
                          !.store = s, !.burstOpen = FALSE, !.burstMany = FALSE,
                          !.runs = [i \in DOMAIN cs.runs |->
                                      [cs.runs[i] EXCEPT !.overtaken = @ \/ Pending(cs, i)]]]))
  /\ UNCHANGED <<TAX_RATES, args, op, result, locals, first>>

\* storage.local.get answers run i
SettingsLoaded(i) ==
  /\ cs.runs[i].pc = "load"
  /\ cs' = Settle(mainWithSettings(Begin(cs), i))
  /\ UNCHANGED <<TAX_RATES, args, op, result, locals, first>>

\* the interval of run i fires
PollTick(i) ==
  /\ cs.runs[i].polling
  /\ LET c == Begin(cs)
         d == checkForRow(c, i)
     IN  cs' = Settle([d EXCEPT !.runs[i].elapsed = @ + 1,
                                !.runs[i].polling = ~CheckReturns(c, i)])
  /\ UNCHANGED <<TAX_RATES, args, op, result, locals, first>>

\* a quarter of a second passes for a run whose interval is cleared
TimePasses(i) ==
  /\ cs.runs[i].pc # "load"
  /\ ~cs.runs[i].polling
  /\ cs.runs[i].elapsed < MAX_ATTEMPTS
  /\ cs' = [Begin(cs) EXCEPT !.runs[i].elapsed = @ + 1]
  /\ UNCHANGED <<TAX_RATES, args, op, result, locals, first>>

\* the page adds or removes nodes that are not the overtime row
PageMutation ==
  /\ \E i \in DOMAIN cs.runs : cs.runs[i].observing
  /\ cs' = Settle([Begin(cs) EXCEPT !.bodyMutated = TRUE])
  /\ UNCHANGED <<TAX_RATES, args, op, result, locals, first>>

\* the page renders the overtime row
RowAppears(text) ==
  /\ ~cs.row
  /\ cs' = Settle([Begin(cs) EXCEPT !.row = TRUE, !.hoursText = text, !.bodyMutated = TRUE])
  /\ UNCHANGED <<TAX_RATES, args, op, result, locals, first>>

\* the page rewrites the text of the hours span
PageSetsHours(text) ==
  /\ cs.row
  /\ text # cs.hoursText
  /\ cs' = Settle([Begin(cs) EXCEPT !.hoursText = text,
                                    !.spanMutated = cs.currentObserver.connected])
  /\ UNCHANGED <<TAX_RATES, args, op, result, locals, first>>

\* the k-th pending timeout fires: updateOvertimeDisplay with the settings
\* of the observer that set it
DebounceFires(k) ==
  /\ LET c == [Begin(cs) EXCEPT
                 !.timers = Without(cs.timers, k),
                 !.debounceTimer = IF k = cs.debounceTimer THEN 0
                                   ELSE IF k < cs.debounceTimer THEN cs.debounceTimer - 1
                                   ELSE cs.debounceTimer,
                 !.burstOpen = FALSE]
         d == updateOvertimeDisplay(c, cs.timers[k])
     IN  cs' = Settle([d EXCEPT !.lastUpdate.byTimer = TRUE,
                                !.lastUpdate.many = cs.burstMany,
                                !.timerCalls = @ + 1])
  /\ UNCHANGED <<TAX_RATES, args, op, result, locals, first>>

\* mouseenter on the pay element
Hover ==
  /\ cs.payElement.count > 0
  /\ cs.lastCalculationResult.some
  /\ ~cs.popup.visible
  /\ cs' = Settle(showHoverPopup(Begin(cs), cs.lastCalculationResult, cs.payElement.listener))
  /\ UNCHANGED <<TAX_RATES, args, op, result, locals, first>>

\* mouseleave
MouseLeave ==
  /\ cs.popup.visible
  /\ cs' = hideHoverPopup(Begin(cs))
  /\ UNCHANGED <<TAX_RATES, args, op, result, locals, first>>

\* A page on which the row is rendered within the first interval of every
\* wait: an interval fires only when the row is there.
InitPage ==
  /\ EngineIdle
  /\ cs \in {ContentScriptLoaded(s, FALSE, <<>>) : s \in {NoSettings, SettingsA}}

NextPage ==
  \/ \E s \in SavedSettings : SettingsChanged(s)
  \/ \E i \in DOMAIN cs.runs : SettingsLoaded(i)
  \/ \E i \in DOMAIN cs.runs : cs.row /\ PollTick(i)
  \/ \E text \in PageTexts : RowAppears(text)
  \/ \E text \in PageTexts : PageSetsHours(text)
  \/ \E k \in DOMAIN cs.timers : DebounceFires(k)

SpecPage == InitPage /\ [][NextPage]_vars

\* The same page with a mouse over it.
NextHover ==
  \/ NextPage
  \/ Hover
  \/ MouseLeave

SpecHover == InitPage /\ [][NextHover]_vars

\* One wait for the row on a page that goes on changing.
InitWait ==
  /\ EngineIdle
  /\ cs = ContentScriptLoaded(SettingsA, FALSE, <<>>)

NextWait ==
  \/ \E i \in DOMAIN cs.runs : SettingsLoaded(i)
  \/ \E i \in DOMAIN cs.runs : PollTick(i)
  \/ \E i \in DOMAIN cs.runs : TimePasses(i)
  \/ PageMutation
  \/ \E text \in PageTexts : RowAppears(text)

SpecWait == InitWait /\ [][NextWait]_vars

-----------------------------------------------------------------------------
(* Properties *)

ValidTableCodes == (8000..8400) \cup (9010..9400)

RegisteredYears == DOMAIN TAX_RATES

\* the call made is a call of f
Called(f) == op = f

\* alminnelig inntekt before its floor at 0, for income x under table code t
GeneralIncomeUnclamped(x, t) ==
  LET r == TAX_RATES[2026]
      deduction ==
        NumMin(NumMax(NumScale(x, r.minstefradrag.rate, 1000), Kr(r.minstefradrag.min)),
               Kr(r.minstefradrag.max))
      adj == IF t >= 9000 THEN Kr((t - 9000) * 1000) ELSE NumNeg(Kr((t - 8000) * 1000))
  IN  NumAdd(NumSub(NumSub(x, deduction), Kr(r.personfradrag)), adj)

\* x is above the floor under every valid table code: the adjustment is
\* smallest under 8400, the largest deduction
AboveFloorAllTables(x) == NumGt(GeneralIncomeUnclamped(x, 8400), NumZero)

\* C1: for tax year 2026, when the general income is above its floor at 0
\* for yearlySalary and for yearlySalary + grossPay under every valid table
\* code, calculateOvertimeTakeHome returns the same takeHome under every
\* valid table code (each code agrees with both ends of the range, 8400
\* and 9400, so all agree).
C1_TableCodeCancellation ==
  ( /\ Called("calculateOvertimeTakeHome")
    /\ args.taxYear = 2026
    /\ args.tableNumber \in ValidTableCodes
    /\ AboveFloorAllTables(Kr(args.yearlySalary))
    /\ AboveFloorAllTables(AnnualIncome(args)) )
  => /\ result.threw = "none"
     /\ \A t \in {8400, 9400} :
          calculateOvertimeTakeHome(args.yearlySalary, args.overtimeHours, t, 2026)
            .value.takeHome = result.value.takeHome

C1_Witness ==
  /\ Called("calculateOvertimeTakeHome")
  /\ args = [yearlySalary |-> 750000, overtimeHours |-> 10,
             tableNumber |-> 8123, taxYear |-> 2026]
  /\ AboveFloorAllTables(Kr(args.yearlySalary))
  /\ result.threw = "none"
  /\ result.value.takeHome = 305308
  /\ calculateOvertimeTakeHome(750000, 10, 9400, 2026).value.takeHome = 305308

\* C2: with overtimeHours = 0, a yearlySalary > 0, a valid table code and a
\* registered year, calculateOvertimeTakeHome returns grossPay, actualTax,
\* withholding, takeHome and takeHomeWithholding 0 and both effective rates 0.
C2_ZeroHoursIdentity ==
  ( /\ Called("calculateOvertimeTakeHome")
    /\ args.overtimeHours = 0
    /\ args.yearlySalary > 0
    /\ args.tableNumber \in ValidTableCodes
    /\ args.taxYear \in RegisteredYears )
  => /\ result.threw = "none"
     /\ result.value.grossPay = 0
     /\ result.value.actualTax = 0
     /\ result.value.withholding = 0
     /\ result.value.takeHome = 0
     /\ result.value.takeHomeWithholding = 0
     /\ result.value.effectiveRate = 0
     /\ result.value.effectiveRateWithholding = 0

C2_Witness ==
  /\ Called("calculateOvertimeTakeHome")
  /\ args = [yearlySalary |-> 600000, overtimeHours |-> 0,
             tableNumber |-> 8115, taxYear |-> 2026]
  /\ result.threw = "none"
  /\ result.value.takeHome = 0
  /\ result.value.effectiveRate = 0
  /\ result.value.hourlyRate > 0

\* C3: for a table code outside 8000-8400 and 9010-9400,
\* calculateOvertimeTakeHome, calculateAnnualTax and
\* calculateMonthlyWithholding throw and return nothing, whatever the salary
\* and the hours; with a registered year the error is the invalid table
\* number (the year is looked up first).
C3_InvalidTableCodeThrows ==
  ( /\ \/ Called("calculateOvertimeTakeHome")
       \/ Called("calculateAnnualTax")
       \/ Called("calculateMonthlyWithholding")
    /\ args.tableNumber \notin ValidTableCodes )
  => /\ result.threw # "none"
     /\ result.value = <<>>
     /\ (args.taxYear \in RegisteredYears => result.threw = "table")
     /\ (Called("calculateOvertimeTakeHome") => locals = <<>>)

C3_Witness ==
  /\ Called("calculateOvertimeTakeHome")
  /\ args = [yearlySalary |-> 900000, overtimeHours |-> 0,
             tableNumber |-> 7150, taxYear |-> 2026]
  /\ result = Throw("table")

\* C4: for a tax year without registered rates, getTaxRates,
\* calculateAnnualTax, calculateMonthlyWithholding and
\* calculateOvertimeTakeHome throw the unsupported-year error and return
\* nothing, whatever the other arguments are.
C4_UnsupportedYearThrows ==
  ( /\ \/ Called("getTaxRates")
       \/ Called("calculateAnnualTax")
       \/ Called("calculateMonthlyWithholding")
       \/ Called("calculateOvertimeTakeHome")
    /\ args.taxYear \notin RegisteredYears )
  => /\ result.threw = "year"
     /\ result.value = <<>>
     /\ (Called("calculateOvertimeTakeHome") => locals = <<>>)

C4_Witness ==
  /\ Called("calculateOvertimeTakeHome")
  /\ args = [yearlySalary |-> 900000, overtimeHours |-> 10,
             tableNumber |-> 7150, taxYear |-> 2025]
  /\ result = Throw("year")

\* C5: parseTableNumber returns for every integer code exactly one of:
\* fradrag with amount (code - 8000) * 1000 for 8000..8400, tillegg with
\* amount (code - 9000) * 1000 for 9010..9400, null for every other code
\* (9000..9009 and 8401..8999 among them); it never throws.
C5_ParseClassifies ==
  Called("parseTableNumber")
  => LET t == args.tableNumber
         r == result.value
     IN  /\ result.threw = "none"
         /\ (t \in 8000..8400 => r = [type |-> "fradrag", amount |-> (t - 8000) * 1000])
         /\ (t \in 9010..9400 => r = [type |-> "tillegg", amount |-> (t - 9000) * 1000])
         /\ (t \notin ValidTableCodes => r.type = "null")

C5_Witness ==
  /\ Called("parseTableNumber")
  /\ args.tableNumber = 9009
  /\ result.value.type = "null"

\* the threshold below bracket i, 0 below the first
LowerThreshold(brackets, i) == IF i = 1 THEN NumZero ELSE Kr(brackets[i - 1].threshold)

\* rate_i * max(0, min(x, threshold_i) - threshold_(i-1))
BracketShare(x, brackets, i) ==
  LET upper == IF brackets[i].inf THEN x ELSE NumMin(x, Kr(brackets[i].threshold))
  IN  NumScale(NumMax(NumZero, NumSub(upper, LowerThreshold(brackets, i))),
               brackets[i].rate, 1000)

RECURSIVE BracketSum(_, _, _)
\* the sum of the shares of the brackets 1..n
BracketSum(x, brackets, n) ==
  IF n = 0 THEN NumZero
  ELSE NumAdd(BracketSum(x, brackets, n - 1), BracketShare(x, brackets, n))

\* x lies in bracket i, its thresholds included
InBracket(x, brackets, i) ==
  /\ NumLe(LowerThreshold(brackets, i), x)
  /\ (brackets[i].inf \/ NumLe(x, Kr(brackets[i].threshold)))

\* C6: calculateTrinnskatt(income, brackets) is the sum over all brackets of
\* rate_i * max(0, min(income, threshold_i) - threshold_(i-1)); it is 0 for
\* income <= 0; and for two incomes in the same bracket (yearlySalary and
\* yearlySalary + grossPay) the taxes differ by the bracket's rate times the
\* difference of the incomes.
C6_TrinnskattIsBracketSum ==
  Called("calculateTrinnskatt")
  => LET x == AnnualIncome(args)
         base == Kr(args.yearlySalary)
         brackets == TAX_RATES[2026].trinnskatt
     IN  /\ result.threw = "none"
         /\ result.value = BracketSum(x, brackets, Len(brackets))
         /\ (NumLe(x, NumZero) => result.value = NumZero)
         /\ \A i \in 1..Len(brackets) :
              (InBracket(x, brackets, i) /\ InBracket(base, brackets, i))
              => NumSub(result.value, calculateTrinnskatt(base, brackets))
                   = NumScale(NumSub(x, base), brackets[i].rate, 1000)

C6_Witness ==
  /\ Called("calculateTrinnskatt")
  /\ args.yearlySalary = 900000
  /\ args.overtimeHours = 10
  /\ InBracket(AnnualIncome(args), TAX_RATES[2026].trinnskatt, 4)
  /\ InBracket(Kr(900000), TAX_RATES[2026].trinnskatt, 4)
  /\ NumGt(result.value, calculateTrinnskatt(Kr(900000), TAX_RATES[2026].trinnskatt))

RECURSIVE FullBrackets(_, _)
\* the tax of the brackets 1..k taken whole
FullBrackets(brackets, k) ==
  IF k = 0 THEN NumZero
  ELSE NumAdd(FullBrackets(brackets, k - 1),
              NumScale(NumSub(Kr(brackets[k].threshold), LowerThreshold(brackets, k)),
                       brackets[k].rate, 1000))

\* C7: at an income equal to a threshold of the 2026 table,
\* calculateTrinnskatt is the tax of the brackets up to that threshold taken
\* whole, with nothing from the bracket that starts there; at 226100 it is 0.
C7_ThresholdBelongsBelow ==
  Called("calculateTrinnskatt")
  => LET x == AnnualIncome(args)
         brackets == TAX_RATES[2026].trinnskatt
     IN  /\ \A k \in 1..Len(brackets) :
              (~brackets[k].inf /\ x = Kr(brackets[k].threshold))
              => result.value = FullBrackets(brackets, k)
         /\ (x = Kr(226100) => result.value = NumZero)

C7_Witness ==
  /\ Called("calculateTrinnskatt")
  /\ args.yearlySalary = 980100
  /\ args.overtimeHours = 0
  /\ result.value = FullBrackets(TAX_RATES[2026].trinnskatt, 4)
  /\ NumGt(result.value, FullBrackets(TAX_RATES[2026].trinnskatt, 3))

\* trinnskatt + trygdeavgift above its threshold + the flat rate on the
\* general income floored at 0, for income x under a valid table code t
AnnualTaxFormula(x, t, r) ==
  LET deduction ==
        NumMin(NumMax(NumScale(x, r.minstefradrag.rate, 1000), Kr(r.minstefradrag.min)),
               Kr(r.minstefradrag.max))
      adj == IF t \in 9010..9400 THEN Kr((t - 9000) * 1000) ELSE NumNeg(Kr((t - 8000) * 1000))
      general == NumMax(NumZero, NumAdd(NumSub(NumSub(x, deduction), Kr(r.personfradrag)), adj))
      insurance ==
        IF NumGt(x, Kr(r.trygdeavgift.threshold))
        THEN NumScale(x, r.trygdeavgift.rate, 1000)
        ELSE NumZero
  IN  NumAdd(NumAdd(calculateTrinnskatt(x, r.trinnskatt), insurance),
             NumScale(general, r.alminneligInntekt.rate, 1000))

\* C8: for a valid table code and a registered year, calculateAnnualTax is
\* trinnskatt(income) + trygdeavgift.rate * income (only for income above the
\* trygdeavgift threshold) + alminneligInntekt.rate * max(0, income -
\* clamp(income * minstefradrag.rate, min, max) - personfradrag + adj) with
\* adj = +amount for a tillegg table and -amount for a fradrag table; the
\* value is exact (no rounding) and not negative for income >= 0.
C8_AnnualTaxFormula ==
  ( /\ Called("calculateAnnualTax")
    /\ args.tableNumber \in ValidTableCodes
    /\ args.taxYear \in RegisteredYears )
  => LET x == AnnualIncome(args)
     IN  /\ result.threw = "none"
         /\ result.value = AnnualTaxFormula(x, args.tableNumber, TAX_RATES[args.taxYear])
         /\ (NumLe(NumZero, x) => NumLe(NumZero, result.value))

C8_Witness ==
  /\ Called("calculateAnnualTax")
  /\ args = [yearlySalary |-> 69650, overtimeHours |-> 0,
             tableNumber |-> 9400, taxYear |-> 2026]
  /\ result.threw = "none"
  /\ result.value = NumScale(Kr(69650 - 32039 - 114210 + 400000), 220, 1000)

\* C9: calculateMonthlyWithholding(m, table, year) * withholdingMonths equals
\* calculateAnnualTax(12 * m, table, year), and the two throw on the same
\* arguments (10.5 = 21/2, so 21 * withholding = 2 * annual tax).
C9_WithholdingIsAnnualTaxSpread ==
  Called("calculateMonthlyWithholding")
  => LET annual ==
           calculateAnnualTax(NumMul(MonthlyIncome(args), 12), args.tableNumber, args.taxYear)
     IN  /\ result.threw = annual.threw
         /\ (result.threw = "none"
             => NumMul(result.value, 21) = NumMul(annual.value, 2))

C9_Witness ==
  /\ Called("calculateMonthlyWithholding")
  /\ args = [yearlySalary |-> 69650, overtimeHours |-> 0,
             tableNumber |-> 9400, taxYear |-> 2026]
  /\ result.threw = "none"
  /\ NumGt(result.value, NumZero)
  /\ NumMul(result.value, 21) = NumMul(calculateAnnualTax(Kr(69650), 9400, 2026).value, 2)

\* C10: before the rounding of the returned object, calculateOvertimeTakeHome
\* has hourlyRate = yearlySalary / 1950, overtimeRate = 1.4 * hourlyRate,
\* grossPay = overtimeHours * overtimeRate, withholding =
\* monthlyWithholding(yearlySalary / 12 + grossPay) -
\* monthlyWithholding(yearlySalary / 12), actualTax = annualTax(yearlySalary +
\* grossPay) - annualTax(yearlySalary), takeHome = grossPay - actualTax,
\* takeHomeWithholding = grossPay - withholding, and each effective rate =
\* its tax / grossPay (0 when grossPay is not positive).
C10_OvertimeComposition ==
  (Called("calculateOvertimeTakeHome") /\ result.threw = "none")
  => LET l == locals
         monthly == NumDiv(Kr(args.yearlySalary), 12)
         t == args.tableNumber
         y == args.taxYear
     IN  /\ NumMul(l.hourlyRate, 1950) = Kr(args.yearlySalary)
         /\ NumMul(l.overtimeRate, 10) = NumMul(l.hourlyRate, 14)
         /\ l.grossPay = NumMul(l.overtimeRate, args.overtimeHours)
         /\ l.withholdingOnOvertime
              = NumSub(calculateMonthlyWithholding(NumAdd(monthly, l.grossPay), t, y).value,
                       calculateMonthlyWithholding(monthly, t, y).value)
         /\ l.actualTaxOnOvertime
              = NumSub(calculateAnnualTax(NumAdd(Kr(args.yearlySalary), l.grossPay), t, y).value,
                       calculateAnnualTax(Kr(args.yearlySalary), t, y).value)
         /\ l.takeHomeActual = NumSub(l.grossPay, l.actualTaxOnOvertime)
         /\ l.takeHomeWithholding = NumSub(l.grossPay, l.withholdingOnOvertime)
         /\ IF NumGt(l.grossPay, NumZero)
            THEN /\ l.effectiveRateActual = [num |-> l.actualTaxOnOvertime, den |-> l.grossPay]
                 /\ l.effectiveRateWithholding
                      = [num |-> l.withholdingOnOvertime, den |-> l.grossPay]
            ELSE /\ l.effectiveRateActual.num = NumZero
                 /\ l.effectiveRateWithholding.num = NumZero

C10_Witness ==
  /\ Called("calculateOvertimeTakeHome")
  /\ args = [yearlySalary |-> 900000, overtimeHours |-> 10,
             tableNumber |-> 8115, taxYear |-> 2026]
  /\ result.threw = "none"
  /\ NumMul(locals.grossPay, 13) = Kr(84000)
  /\ NumGt(locals.withholdingOnOvertime, locals.actualTaxOnOvertime)
  /\ NumGt(locals.takeHomeActual, NumZero)

\* whole cents a and b differ by at most tol cents
WithinCents(a, b, tol) == a - b <= tol /\ b - a <= tol

\* C11: the object calculateOvertimeTakeHome returns carries a field
\* estimatedRefund, within 0.01 of withholding - actualTax and not clamped;
\* in the reference scenario (900000, 10 hours, 8115, 2026) it is positive.
C11_EstimatedRefundReturned ==
  (Called("calculateOvertimeTakeHome") /\ result.threw = "none")
  => /\ "estimatedRefund" \in DOMAIN result.value
     /\ WithinCents(result.value.estimatedRefund,
                    result.value.withholding - result.value.actualTax, 1)
     /\ ( args = [yearlySalary |-> 900000, overtimeHours |-> 10,
                  tableNumber |-> 8115, taxYear |-> 2026]
          => result.value.estimatedRefund > 0 )

\* C12: for tax year 2026 and every valid table code,
\* calculateMonthlyWithholding is non-decreasing in the monthly gross
\* income: the withholding of the call is at least the withholding of
\* every lower monthly income of the sample and at most that of every
\* higher one; the sample has incomes on both sides of the trygdeavgift
\* threshold, of the minstefradrag floor and cap and of every bracket
\* threshold.
C12_WithholdingMonotone ==
  ( /\ Called("calculateMonthlyWithholding")
    /\ args.taxYear = 2026
    /\ args.tableNumber \in ValidTableCodes )
  => /\ result.threw = "none"
     /\ \A s \in Salaries :
          LET other == MonthlyIncome([args EXCEPT !.yearlySalary = s])
              tax == calculateMonthlyWithholding(other, args.tableNumber, 2026).value
          IN  /\ NumLe(other, MonthlyIncome(args)) => NumLe(tax, result.value)
              /\ NumLe(MonthlyIncome(args), other) => NumLe(result.value, tax)

\* 100,000 a year is above the trygdeavgift threshold and 69,650 is not:
\* the withholding rises by at least the whole trygdeavgift of 69,650
C12_Witness ==
  /\ Called("calculateMonthlyWithholding")
  /\ args = [yearlySalary |-> 100000, overtimeHours |-> 0,
             tableNumber |-> 8115, taxYear |-> 2026]
  /\ result.threw = "none"
  /\ NumLt(NumDiv(Kr(69650), 12), MonthlyIncome(args))
  /\ calculateMonthlyWithholding(NumDiv(Kr(69650), 12), 8115, 2026).value = NumZero
  /\ NumGt(result.value, NumScale(Kr(69650), 76 * 2, 1000 * 21))

\* the salaries validateParameters accepts
ValidatedSalary(s) == s >= 100000 /\ s <= 5000000

\* C13: for tax year 2026, every annual salary of 100,000 to 5,000,000,
\* every overtimeHours >= 0 and every valid table code, the tax withheld on
\* the overtime is at least the actual tax on it, before and after the
\* rounding: takeHome >= takeHomeWithholding and withholding - actualTax,
\* the estimated refund, is never negative.
C13_WithholdingAtLeastActual ==
  ( /\ Called("calculateOvertimeTakeHome")
    /\ ValidatedSalary(args.yearlySalary)
    /\ args.overtimeHours >= 0
    /\ args.tableNumber \in ValidTableCodes
    /\ args.taxYear = 2026 )
  => /\ result.threw = "none"
     /\ NumLe(locals.actualTaxOnOvertime, locals.withholdingOnOvertime)
     /\ NumLe(locals.takeHomeWithholding, locals.takeHomeActual)
     /\ result.value.withholding - result.value.actualTax >= 0
     /\ result.value.takeHome >= result.value.takeHomeWithholding

C13_Witness ==
  /\ Called("calculateOvertimeTakeHome")
  /\ args = [yearlySalary |-> 900000, overtimeHours |-> 10,
             tableNumber |-> 8115, taxYear |-> 2026]
  /\ result.threw = "none"
  /\ result.value.withholding = 319754
  /\ result.value.actualTax = 279785
  /\ result.value.takeHome = 366369
  /\ result.value.takeHomeWithholding = 326400

\* the call is calculateMonthlyWithholding for 2026 of a monthly income
\* above 0 under an addition code whose amount is also a deduction code
AdditionCodeCall ==
  /\ Called("calculateMonthlyWithholding")
  /\ args.taxYear = 2026
  /\ args.tableNumber \in 9010..9400
  /\ NumGt(MonthlyIncome(args), NumZero)

\* the withholding of the same income under the deduction code of the amount
UnderDeductionCode ==
  calculateMonthlyWithholding(MonthlyIncome(args), args.tableNumber - 1000, 2026).value

\* C14 as stated: for every monthly income above 0 and every deduction code
\* and addition code of the same amount, the monthly withholding under the
\* deduction code is strictly lower than under the addition code.
C14_DeductionStrictlyLower ==
  AdditionCodeCall => NumLt(UnderDeductionCode, result.value)

\* C14, amended: the withholding under the deduction code is never higher
\* than under the addition code of the same amount, and it is strictly
\* lower whenever the general income under the addition code (annual gross
\* - minstefradrag - personfradrag + amount) is above 0.
C14_DeductionNeverHigher ==
  AdditionCodeCall
  => /\ result.threw = "none"
     /\ NumLe(UnderDeductionCode, result.value)
     /\ NumGt(GeneralIncomeUnclamped(NumMul(MonthlyIncome(args), 12), args.tableNumber),
              NumZero)
        => NumLt(UnderDeductionCode, result.value)

\* 750,000 a year under 9050 and 8050: the general incomes differ by
\* 100,000, the withholdings by 0.22 * 100,000 / 10.5
C14_Witness ==
  /\ AdditionCodeCall
  /\ args = [yearlySalary |-> 750000, overtimeHours |-> 0,
             tableNumber |-> 9050, taxYear |-> 2026]
  /\ result.threw = "none"
  /\ NumSub(result.value, UnderDeductionCode) = NumScale(Kr(100000), 220 * 2, 1000 * 21)

\* the fraction r, of a positive denominator, lies in [0, 1]
RatioInUnitInterval(r) == NumLe(NumZero, r.num) /\ NumLe(r.num, r.den)

\* both effective rates of the call lie in [0, 1], before and after the
\* rounding to per mille
RatesInUnitInterval ==
  /\ result.threw = "none"
  /\ RatioInUnitInterval(locals.effectiveRateActual)
  /\ RatioInUnitInterval(locals.effectiveRateWithholding)
  /\ result.value.effectiveRate \in 0..1000
  /\ result.value.effectiveRateWithholding \in 0..1000

\* C15 as stated: for every annual salary > 0, overtimeHours >= 0, valid
\* table code and registered year, effectiveRate and
\* effectiveRateWithholding lie in [0, 1].
C15_RatesInUnitInterval ==
  ( /\ Called("calculateOvertimeTakeHome")
    /\ args.yearlySalary > 0
    /\ args.overtimeHours >= 0
    /\ args.tableNumber \in ValidTableCodes
    /\ args.taxYear \in RegisteredYears )
  => RatesInUnitInterval

\* C15, amended: for every annual salary above the trygdeavgift threshold
\* (69,650 in 2026; every salary validateParameters accepts is), every
\* overtimeHours >= 0, valid table code and registered year, effectiveRate
\* and effectiveRateWithholding lie in [0, 1].
C15_RatesInUnitIntervalAboveThreshold ==
  ( /\ Called("calculateOvertimeTakeHome")
    /\ args.taxYear \in RegisteredYears
    /\ args.yearlySalary > TAX_RATES[args.taxYear].trygdeavgift.threshold
    /\ args.overtimeHours >= 0
    /\ args.tableNumber \in ValidTableCodes )
  => RatesInUnitInterval

C15_Witness ==
  /\ Called("calculateOvertimeTakeHome")
  /\ args = [yearlySalary |-> 900000, overtimeHours |-> 10,
             tableNumber |-> 8115, taxYear |-> 2026]
  /\ RatesInUnitInterval
  /\ result.value.effectiveRate = 433
  /\ result.value.effectiveRateWithholding = 495

\* c whole cents is x rounded to 0.01, halves up: c - 1/2 <= 100 x < c + 1/2
IsCentsOf(c, x) ==
  /\ NumLe(Kr(2 * c - 1), NumMul(x, 200))
  /\ NumLt(NumMul(x, 200), Kr(2 * c + 1))

\* k per mille is tax / grossPay rounded to 0.001, halves up, and 0 when
\* grossPay is not above 0
IsPerMilleOf(k, tax, grossPay) ==
  IF NumGt(grossPay, NumZero)
  THEN /\ NumLe(NumMul(grossPay, 2 * k - 1), NumMul(tax, 2000))
       /\ NumLt(NumMul(tax, 2000), NumMul(grossPay, 2 * k + 1))
  ELSE k = 0

\* C16: calculateOvertimeTakeHome rounds only in the object it returns.
\* The intermediate values are exact (hourlyRate * 1950 = yearlySalary,
\* overtimeRate = 1.4 hourlyRate, grossPay = hours * overtimeRate, each
\* take-home = grossPay - tax, all unrounded); each currency field is its
\* own unrounded quantity rounded to 0.01, so takeHome is the rounding of
\* grossPay - actualTax unrounded; each rate field is the unrounded ratio
\* rounded to 0.001.
C16_RoundingAtBoundaryOnly ==
  (Called("calculateOvertimeTakeHome") /\ result.threw = "none")
  => /\ NumMul(locals.hourlyRate, HOURS_PER_YEAR) = Kr(args.yearlySalary)
     /\ NumMul(locals.overtimeRate, 10) = NumMul(locals.hourlyRate, OVERTIME_MULTIPLIER_TENTHS)
     /\ locals.grossPay = NumMul(locals.overtimeRate, args.overtimeHours)
     /\ IsCentsOf(result.value.hourlyRate, locals.hourlyRate)
     /\ IsCentsOf(result.value.overtimeRate, locals.overtimeRate)
     /\ IsCentsOf(result.value.grossPay, locals.grossPay)
     /\ IsCentsOf(result.value.actualTax, locals.actualTaxOnOvertime)
     /\ IsCentsOf(result.value.withholding, locals.withholdingOnOvertime)
     /\ IsCentsOf(result.value.takeHome,
                  NumSub(locals.grossPay, locals.actualTaxOnOvertime))
     /\ IsCentsOf(result.value.takeHomeWithholding,
                  NumSub(locals.grossPay, locals.withholdingOnOvertime))
     /\ IsPerMilleOf(result.value.effectiveRate,
                     locals.actualTaxOnOvertime, locals.grossPay)
     /\ IsPerMilleOf(result.value.effectiveRateWithholding,
                     locals.withholdingOnOvertime, locals.grossPay)

\* 300,000 with 10 hours: 2153.85 - 674.15 = 1479.70 in rounded fields, and
\* the take-home returned is 1479.69
C16_Witness ==
  /\ Called("calculateOvertimeTakeHome")
  /\ args = [yearlySalary |-> 300000, overtimeHours |-> 10,
             tableNumber |-> 8000, taxYear |-> 2026]
  /\ result.threw = "none"
  /\ result.value.grossPay = 215385
  /\ result.value.actualTax = 67415
  /\ result.value.takeHome = 147969

\* the call is the reference scenario of the tests
ReferenceScenario ==
  /\ Called("calculateOvertimeTakeHome")
  /\ args = [yearlySalary |-> 900000, overtimeHours |-> 10,
             tableNumber |-> 8115, taxYear |-> 2026]

\* takeHome and takeHomeWithholding are positive, takeHome is the larger,
\* and effectiveRate is within [0.30, 0.55]
ReferenceTakeHomeAndRate ==
  /\ result.value.takeHome > 0
  /\ result.value.takeHomeWithholding > 0
  /\ result.value.takeHome > result.value.takeHomeWithholding
  /\ result.value.effectiveRate \in 300..550

\* C17 as stated: the reference scenario (900000, 10 hours, 8115, 2026)
\* gives grossPay of about 7179.49 (here: within 1 kr of it), takeHome and
\* takeHomeWithholding positive, takeHome > takeHomeWithholding and
\* effectiveRate within [0.30, 0.55].
C17_ReferenceScenario7179 ==
  ReferenceScenario
  => /\ result.threw = "none"
     /\ WithinCents(result.value.grossPay, 717949, 100)
     /\ ReferenceTakeHomeAndRate

\* C17, amended: the reference scenario gives grossPay 6461.54
\* (10 * 900000 / 1950 * 1.4, to the cent), takeHome and takeHomeWithholding
\* positive, takeHome > takeHomeWithholding and effectiveRate within
\* [0.30, 0.55].
C17_ReferenceScenario6461 ==
  ReferenceScenario
  => /\ result.threw = "none"
     /\ result.value.grossPay = 646154
     /\ ReferenceTakeHomeAndRate

C17_Witness ==
  /\ ReferenceScenario
  /\ result.threw = "none"
  /\ NumMul(locals.grossPay, 13) = Kr(84000)
  /\ result.value.grossPay = 646154
  /\ result.value.effectiveRate = 433

\* the call is validateParameters of a scenario that is acceptable but for
\* its hours: salary within 100,000..5,000,000, a table code that parses,
\* a registered year
ValidationOfAcceptableButHours ==
  /\ Called("validateParameters")
  /\ ValidatedSalary(args.yearlySalary)
  /\ args.tableNumber \in ValidTableCodes
  /\ args.taxYear \in RegisteredYears

\* C18 as stated: validateParameters flags overtimeHours above 200 without
\* rejecting: a scenario acceptable but for hours above 200 gets
\* valid = true.
C18_HighHoursNotRejected ==
  (ValidationOfAcceptableButHours /\ args.overtimeHours > 200)
  => result.value.valid = TRUE

\* C18, amended: validateParameters rejects overtimeHours above 200: a
\* scenario acceptable but for hours above 200 gets valid = false, with
\* the one error "Overtime hours seems unusually high (>200 hours)"; hours
\* of 0 to 200 get valid = true and no error.
C18_HighHoursRejected ==
  ValidationOfAcceptableButHours
  => /\ args.overtimeHours > 200
        => result.value = [valid |-> FALSE,
                           errors |-> <<"Overtime hours seems unusually high (>200 hours)">>]
     /\ args.overtimeHours \in 0..200
        => result.value = [valid |-> TRUE, errors |-> <<>>]

C18_Witness ==
  /\ Called("validateParameters")
  /\ args = [yearlySalary |-> 600000, overtimeHours |-> 201,
             tableNumber |-> 8115, taxYear |-> 2026]
  /\ result.value.valid = FALSE
  /\ Len(result.value.errors) = 1

\* C19: validateParameters returns valid = false with a non-empty error
\* list whenever the salary is outside 100,000..5,000,000, or the table
\* code does not parse, or the hours are negative, or taxYear is an integer
\* with no registered rate table; and valid = true exactly when the error
\* list is empty.
C19_ValidationRejects ==
  Called("validateParameters")
  => /\ ( \/ ~ValidatedSalary(args.yearlySalary)
          \/ args.tableNumber \notin ValidTableCodes
          \/ args.overtimeHours < 0
          \/ args.taxYear \notin RegisteredYears )
        => (result.value.valid = FALSE /\ Len(result.value.errors) > 0)
     /\ result.value.valid = TRUE <=> Len(result.value.errors) = 0

\* C20: the engine is pure and order-independent.  In every sequence of
\* calls of parseTableNumber, getTaxRates, calculateTrinnskatt,
\* calculateAnnualTax, calculateMonthlyWithholding,
\* calculateOvertimeTakeHome and validateParameters, returning or throwing,
\* the rate registry stays as it was loaded, and a call of the function and
\* arguments of the first call of the sequence returns or throws what that
\* first call, made alone on the fresh module, returned or threw.
C20_CallsArePure ==
  /\ TAX_RATES = TAX_RATES_INITIAL
  /\ (op # "none" /\ first.op = op /\ first.args = args) => result = first.result

\* getTaxRates(2025) throws after other calls as it threw first
C20_WitnessThrow ==
  /\ first.later
  /\ Called("getTaxRates")
  /\ first.op = "getTaxRates"
  /\ args.taxYear = 2025
  /\ first.args = args
  /\ result = Throw("year")

\* the threshold of the last finite trinnskatt bracket of 2026
LastFiniteThreshold ==
  LET b == TAX_RATES[2026].trinnskatt IN b[Len(b) - 1].threshold

\* top bracket rate + trygdeavgift rate + alminnelig inntekt rate, per mille
TopMarginalRate ==
  LET r == TAX_RATES[2026]
  IN  r.trinnskatt[Len(r.trinnskatt)].rate + r.trygdeavgift.rate + r.alminneligInntekt.rate

\* C21: for tax year 2026, every annual salary at or above the last finite
\* trinnskatt threshold (1,467,200), every overtimeHours > 0 and every
\* valid table code, the unrounded actual tax on the overtime is
\* 0.474 * grossPay (17.8% + 7.6% + 22%), however high the salary.
C21_TopBracketRate ==
  ( /\ Called("calculateOvertimeTakeHome")
    /\ args.taxYear = 2026
    /\ args.yearlySalary >= LastFiniteThreshold
    /\ args.overtimeHours > 0
    /\ args.tableNumber \in ValidTableCodes )
  => /\ result.threw = "none"
     /\ TopMarginalRate = 474
     /\ NumMul(locals.actualTaxOnOvertime, 1000) = NumMul(locals.grossPay, TopMarginalRate)

\* 100,000,000 a year with 10 hours: grossPay 717,948.72, tax 340,307.69
C21_Witness ==
  /\ Called("calculateOvertimeTakeHome")
  /\ args = [yearlySalary |-> 100000000, overtimeHours |-> 10,
             tableNumber |-> 8115, taxYear |-> 2026]
  /\ result.threw = "none"
  /\ result.value.grossPay = 71794872
  /\ result.value.actualTax = 34030769
  /\ result.value.effectiveRate = 474

\* the general income of x under table code t is floored at 0
FlooredAt(x, t) == NumLe(GeneralIncomeUnclamped(x, t), NumZero)

\* C22: the cancellation of the table code breaks where the floor of the
\* general income applies under one code and not under another, and the
\* result shows it.  For 2026, a salary above 0 and hours above 0: when
\* the general income of yearlySalary + grossPay is floored at 0 under the
\* code of the call and the general income of yearlySalary is above 0
\* under another valid code, the take-home returned for the code of the
\* call is higher than the take-home returned for the other code (as for
\* 450000, 10 hours, 8400 against 8000).
C22_FloorBreaksCancellation ==
  ( /\ Called("calculateOvertimeTakeHome")
    /\ args.taxYear = 2026
    /\ args.tableNumber \in ValidTableCodes
    /\ args.yearlySalary > 0
    /\ args.overtimeHours > 0
    /\ FlooredAt(AnnualIncome(args), args.tableNumber) )
  => /\ result.threw = "none"
     /\ \A t \in {8000, 9400} :
          ~FlooredAt(Kr(args.yearlySalary), t)
          => calculateOvertimeTakeHome(args.yearlySalary, args.overtimeHours, t, 2026)
               .value.takeHome < result.value.takeHome

\* 450,000 with 10 hours: 2856.00 under 8400, 2145.23 under 8000
C22_Witness ==
  /\ Called("calculateOvertimeTakeHome")
  /\ args = [yearlySalary |-> 450000, overtimeHours |-> 10,
             tableNumber |-> 8400, taxYear |-> 2026]
  /\ FlooredAt(AnnualIncome(args), 8400)
  /\ ~FlooredAt(Kr(450000), 8000)
  /\ result.threw = "none"
  /\ result.value.takeHome = 285600
  /\ calculateOvertimeTakeHome(450000, 10, 8000, 2026).value.takeHome = 214523

\* x, y and z lie in one trinnskatt bracket of 2026
SameBracket(x, y, z) ==
  LET brackets == TAX_RATES[2026].trinnskatt
  IN  \E i \in 1..Len(brackets) :
        InBracket(x, brackets, i) /\ InBracket(y, brackets, i) /\ InBracket(z, brackets, i)

\* the annual income the combined month of the withholding stands for:
\* yearlySalary + 12 * grossPay
AnnualisedIncome(a) == NumAdd(Kr(a.yearlySalary), NumMul(GrossPay(a), 12))

\* C23: for 2026, a valid table code and hours above 0, when yearlySalary,
\* yearlySalary + grossPay and yearlySalary + 12 * grossPay lie in one
\* trinnskatt bracket, yearlySalary is above the trygdeavgift threshold and
\* at or above the point where minstefradrag reaches its cap, and the
\* general income of yearlySalary is above its floor, the unrounded
\* withholding on the overtime times withholdingMonths (10.5) is exactly 12
\* times the unrounded actual tax on the overtime.
C23_WithholdingRatio ==
  ( /\ Called("calculateOvertimeTakeHome")
    /\ args.taxYear = 2026
    /\ args.tableNumber \in ValidTableCodes
    /\ args.overtimeHours > 0
    /\ SameBracket(Kr(args.yearlySalary), AnnualIncome(args), AnnualisedIncome(args))
    /\ args.yearlySalary > TAX_RATES[2026].trygdeavgift.threshold
    /\ NumLe(Kr(TAX_RATES[2026].minstefradrag.max),
             NumScale(Kr(args.yearlySalary), TAX_RATES[2026].minstefradrag.rate, 1000))
    /\ ~FlooredAt(Kr(args.yearlySalary), args.tableNumber) )
  => /\ result.threw = "none"
     /\ NumMul(locals.withholdingOnOvertime, TAX_RATES[2026].withholdingMonths)
          = NumMul(locals.actualTaxOnOvertime, 2 * 12)

\* 900,000 with 10 hours: 900,000 + 12 * 6461.54 = 977,538.46 is still
\* below 980,100
C23_Witness ==
  /\ Called("calculateOvertimeTakeHome")
  /\ args = [yearlySalary |-> 900000, overtimeHours |-> 10,
             tableNumber |-> 8115, taxYear |-> 2026]
  /\ SameBracket(Kr(900000), AnnualIncome(args), AnnualisedIncome(args))
  /\ result.threw = "none"
  /\ NumGt(locals.actualTaxOnOvertime, NumZero)
  /\ NumMul(locals.withholdingOnOvertime, 21) = NumMul(locals.actualTaxOnOvertime, 24)

\* C24: for 2026, fixed hours above 0 and a fixed valid table code, the
\* effectiveRate that calculateOvertimeTakeHome returns is non-decreasing
\* in the annual salary over 100,000..5,000,000: no lower salary of the
\* sample gets a higher rate than the salary of the call.
C24_EffectiveRateMonotone ==
  ( /\ Called("calculateOvertimeTakeHome")
    /\ args.taxYear = 2026
    /\ args.tableNumber \in ValidTableCodes
    /\ args.overtimeHours > 0
    /\ ValidatedSalary(args.yearlySalary) )
  => /\ result.threw = "none"
     /\ \A s \in Salaries :
          (ValidatedSalary(s) /\ s < args.yearlySalary)
          => calculateOvertimeTakeHome(s, args.overtimeHours, args.tableNumber, 2026)
               .value.effectiveRate <= result.value.effectiveRate

\* 450,000 gets 0.336 and 900,000 gets 0.433
C24_Witness ==
  /\ Called("calculateOvertimeTakeHome")
  /\ args = [yearlySalary |-> 900000, overtimeHours |-> 10,
             tableNumber |-> 8115, taxYear |-> 2026]
  /\ result.threw = "none"
  /\ result.value.effectiveRate = 433
  /\ calculateOvertimeTakeHome(450000, 10, 8115, 2026).value.effectiveRate = 336

\* C25: for 2026, every annual salary of 100,000..5,000,000, every
\* overtimeHours >= 1 and every valid table code, both take-home values are
\* strictly between 0 and grossPay, before and after the rounding: the tax
\* on the overtime is positive under both methods and never takes the whole
\* overtime pay.
C25_TakeHomeBounds ==
  ( /\ Called("calculateOvertimeTakeHome")
    /\ args.taxYear = 2026
    /\ args.tableNumber \in ValidTableCodes
    /\ args.overtimeHours >= 1
    /\ ValidatedSalary(args.yearlySalary) )
  => /\ result.threw = "none"
     /\ NumLt(NumZero, locals.takeHomeWithholding)
     /\ NumLt(locals.takeHomeWithholding, locals.grossPay)
     /\ NumLt(NumZero, locals.takeHomeActual)
     /\ NumLt(locals.takeHomeActual, locals.grossPay)
     /\ 0 < result.value.takeHomeWithholding
     /\ result.value.takeHomeWithholding < result.value.grossPay
     /\ 0 < result.value.takeHome
     /\ result.value.takeHome < result.value.grossPay

\* the lowest salary, one hour, the largest deduction: no trinnskatt and no
\* general income, trygdeavgift alone: takeHome 66.34 of grossPay 71.79
C25_Witness ==
  /\ Called("calculateOvertimeTakeHome")
  /\ args = [yearlySalary |-> 100000, overtimeHours |-> 1,
             tableNumber |-> 8400, taxYear |-> 2026]
  /\ result.threw = "none"
  /\ result.value.grossPay = 7179
  /\ result.value.actualTax = 546
  /\ result.value.takeHome = 6634

\* no run of main is at an await, and no interval is left
Quiescent ==
  \A i \in DOMAIN cs.runs : cs.runs[i].pc = "done" /\ ~cs.runs[i].polling

\* the script shows, observes and is about to recalculate with the settings
\* saved last: the amount beside hours that the span reads, when no
\* recalculation is pending, the installed hours observer, every pending
\* timeout
LatestSettingsInUse ==
  /\ (/\ cs.payElement.count > 0
      /\ parseOvertimeHours(cs) \notin {NullHours, ZeroHours}
      /\ cs.timers = <<>>)
       => cs.payElement.settings = cs.store
  /\ cs.currentObserver.connected => cs.currentObserver.settings = cs.store
  /\ \A k \in DOMAIN cs.timers : cs.timers[k] = cs.store

\* C26: when main was called again while an earlier run waited for the row,
\* then once the row is there and every run has finished, the displayed
\* amount, the installed hours observer and a pending recalculation all use
\* the settings saved last.
C26_LatestSettingsWin ==
  (cs.row /\ Quiescent /\ \E i \in DOMAIN cs.runs : cs.runs[i].overtaken)
    => LatestSettingsInUse

C28_RowWithinWaitResolves ==
  \A i \in DOMAIN cs.runs :
    ~(cs.runs[i].outcome = "null" /\ cs.row /\ cs.runs[i].elapsed < MAX_ATTEMPTS)

\* a call of updateOvertimeDisplay that read the hours it had processed last
\* did not recalculate, and every call read the hours the span shows
SameHoursNoRecalculation ==
  cs.lastUpdate.ran =>
    /\ cs.lastUpdate.same => ~cs.lastUpdate.recalculated
    /\ cs.lastUpdate.hours = parseOvertimeHours(cs)

C29_WitnessSameHours ==
  /\ cs.lastUpdate.byTimer
  /\ cs.lastUpdate.same
  /\ cs.timerCalls = 1
  /\ ~cs.burstOpen

====
